---- MODULE Spec2Model ----
(***************************************************************************)
(* Model of dnd_demographics.py: demographic() and the functions it calls. *)
(*                                                                         *)
(* One call of demographic(population, highest_lvl_ratio, num_levels) is   *)
(* followed from entry to its return or to the exception that ends it.     *)
(* pc is the position in that call.                                        *)
(*                                                                         *)
(* Numbers.  Python ints are modelled as integers.  Python floats are      *)
(* modelled as fixed-point numbers: the integer v stands for v / Scale,    *)
(* every product and quotient is rounded toward zero to that grid, and a   *)
(* magnitude of FxMax or more is held as FxMax.  The inputs are kept in    *)
(* the range where a double represents every integer of the run exactly    *)
(* and no double overflows.  The grid is coarser than a double, so a value *)
(* within one grid step of zero may differ in sign from the double the     *)
(* code computes (ratio_formula at the lower bracket end for target sums   *)
(* next to NUM_LEVELS).                                                    *)
(***************************************************************************)
EXTENDS Integers, Sequences, FiniteSets

\* ---------------------------------------------------------------- constants

\* _MAX_ITER = 1000
MAX_ITER == 1000

\* ONE_MILLION = 1_000_000
ONE_MILLION == 1000000

\* NUM_LEVELS = 20
NUM_LEVELS == 20

\* sys.float_info.epsilon: the gap between 1.0 and the next float, one grid step
EPSILON == 1

\* ------------------------------------------------------------------- bounds

\* grid steps per unit of the fixed-point numbers
Scale == 1000

\* largest population of a call
MaxPopulation == 4

\* largest of the small target sums of a call
MaxTargetSum == 27

\* largest of the small level counts of a call
MaxLevels == 4

\* magnitudes from here on are held as FxMax (2^30)
FxMax == 1073741824

\* ------------------------------------------------------------ number helpers

Abs(a) == IF a < 0 THEN -a ELSE a

Sign(a) == IF a < 0 THEN -1 ELSE IF a > 0 THEN 1 ELSE 0

\* a * b for non-negative integers, held at FxMax
SatMul(a, b) ==
    IF a = 0 \/ b = 0 THEN 0
    ELSE IF a > FxMax \div b THEN FxMax
    ELSE a * b

\* r ** n for a non-negative integer r and n >= 0
RECURSIVE IntPow(_, _)
IntPow(r, n) == IF n <= 0 THEN 1 ELSE SatMul(IntPow(r, n - 1), r)

\* a * b for non-negative fixed-point a, b (b below 2^31 / Scale)
FxMul(a, b) ==
    LET q  == a \div Scale
        rm == a % Scale
    IN  IF a = 0 \/ b = 0 THEN 0
        ELSE IF q + 1 > FxMax \div b THEN FxMax
        ELSE q * b + (rm * b) \div Scale

\* x ** n for a non-negative fixed-point x and an integer n >= 0
RECURSIVE FxPow(_, _)
FxPow(x, n) == IF n <= 0 THEN Scale ELSE FxMul(FxPow(x, n - 1), x)

\* ------------------------------------------------------------------ _geo_sum

\* _geo_sum(r, n) = (1 - r ** n) / (1 - r), r an integer >= 2: an integer value
GeoSum(r, n) == (1 - IntPow(r, n)) \div (1 - r)

\* ------------------------------------------------------------- ratio_formula

\* ratio_formula(x, target_sum, num_levels) = x**num_levels - target_sum*x + target_sum - 1
RatioFormula(x, target_sum, levels) ==
    FxPow(x, levels) - target_sum * x + target_sum * Scale - Scale

\* ------------------------------------------------- optimize.root_scalar

\* brentq refuses a bracket whose end values have the same sign (f(a) * f(b) > 0)
BracketValid(target_sum, levels, a, b) ==
    Sign(RatioFormula(a, target_sum, levels)) * Sign(RatioFormula(b, target_sum, levels)) <= 0

\* The sign change between a and b, narrowed to neighbouring grid points; the
\* one nearer to a zero of the formula is the root reported.
RECURSIVE Bisect(_, _, _, _)
Bisect(target_sum, levels, a, b) ==
    LET fa == RatioFormula(a, target_sum, levels)
        fb == RatioFormula(b, target_sum, levels)
        m  == (a + b) \div 2
        fm == RatioFormula(m, target_sum, levels)
    IN  IF b - a <= 1 THEN (IF Abs(fa) <= Abs(fb) THEN a ELSE b)
        ELSE IF fm = 0 THEN m
        ELSE IF Sign(fm) = Sign(fa) THEN Bisect(target_sum, levels, m, b)
        ELSE Bisect(target_sum, levels, a, m)

\* solution.root of root_scalar(ratio_formula, args=(target_sum,), bracket=[a, b])
RootOf(target_sum, levels, a, b) ==
    IF RatioFormula(a, target_sum, levels) = 0 THEN a
    ELSE IF RatioFormula(b, target_sum, levels) = 0 THEN b
    ELSE Bisect(target_sum, levels, a, b)

\* ------------------------------------------------------------------- state

VARIABLES
    population,     \* demographic's population argument
    target_sum,     \* highest_lvl_ratio, passed down as target_sum
    num_levels,     \* demographic's num_levels argument
    pc,             \* position in the call
    upper,          \* _get_rough_upper's candidate
    evaluated,      \* _geo_sum evaluations made by _get_rough_upper
    formula_levels, \* num_levels as bound inside ratio_formula during the solve
    ratio,          \* calc_geometric_ratio's result (fixed-point)
    fractions,      \* generate_per_level_fractions' result (fixed-point each)
    rough_numbers,  \* rough number per level 1..num_levels (fixed-point each)
    final_numbers,  \* the mapping being built, level -> count
    sample,         \* the last value random.random() returned (fixed-point)
    draws,          \* number of random.random() calls made
    error           \* the exception that ended the call, or "none"

vars == <<population, target_sum, num_levels, pc, upper, evaluated, formula_levels,
          ratio, fractions, rough_numbers, final_numbers, sample, draws, error>>

\* The arguments of a call: small target sums and level counts, the target
\* sums at which the upper-bound search meets its cap, and the defaults.
TargetSums == (0 .. MaxTargetSum) \cup {MAX_ITER + 1, MAX_ITER + 2}

Calls == (TargetSums \X (0 .. MaxLevels)) \cup {<<ONE_MILLION, NUM_LEVELS>>}

\* values random.random() can return: floats in [0, 1)
Samples == {0, Scale \div 2, Scale - 1}

Errors == {"InvalidConfiguration", "BoundsNotFound", "NoConvergence", "BracketSigns"}

Init ==
    /\ population \in 0 .. MaxPopulation
    /\ \E c \in Calls : target_sum = c[1] /\ num_levels = c[2]
    /\ pc = "calc_geometric_ratio"
    /\ upper = 0
    /\ evaluated = 0
    /\ formula_levels = 0
    /\ ratio = 0
    /\ fractions = <<>>
    /\ rough_numbers = <<>>
    /\ final_numbers = <<>>
    /\ sample = 0
    /\ draws = 0
    /\ error = "none"

\* an exception leaves demographic: nothing catches it on the way up
Raise(e) ==
    /\ pc' = "raised"
    /\ error' = e

\* ---------------------------------------------------------------- actions

\* changed: the check lets a single level through
LevelsInvalidBelowOne(levels) == levels < 1

\* _get_rough_upper's check of num_levels
LevelsInvalid(levels) == levels <= 1

\* demographic -> generate_per_level_fractions -> calc_geometric_ratio ->
\* _get_rough_upper, up to the start of its loop
EnterGetRoughUpper ==
    /\ pc = "calc_geometric_ratio"
    /\ \/ /\ LevelsInvalid(num_levels)
          /\ Raise("InvalidConfiguration")
          /\ UNCHANGED upper
       \/ /\ ~LevelsInvalid(num_levels)
          /\ upper' = 2
          /\ pc' = "get_rough_upper"
          /\ UNCHANGED error
    /\ UNCHANGED <<population, target_sum, num_levels, evaluated, formula_levels,
                   ratio, fractions, rough_numbers, final_numbers, sample, draws>>

\* the loop's first test: _geo_sum(upper, num_levels) > target_sum
SumExceeds(u, levels, target) == GeoSum(u, levels) > target

\* changed: the cap is tested one candidate late
CapReachedLate(u) == u > MAX_ITER + 1

\* the loop's second test: upper > _MAX_ITER
CapReached(u) == u > MAX_ITER

\* one iteration of _get_rough_upper's loop
SearchStep ==
    /\ pc = "get_rough_upper"
    /\ evaluated' = evaluated + 1
    /\ \/ /\ SumExceeds(upper, num_levels, target_sum)
          /\ pc' = "root_scalar"
          /\ UNCHANGED <<upper, error>>
       \/ /\ ~SumExceeds(upper, num_levels, target_sum)
          /\ CapReached(upper)
          /\ Raise("BoundsNotFound")
          /\ UNCHANGED upper
       \/ /\ ~SumExceeds(upper, num_levels, target_sum)
          /\ ~CapReached(upper)
          /\ upper' = upper + 1
          /\ UNCHANGED <<pc, error>>
    /\ UNCHANGED <<population, target_sum, num_levels, formula_levels,
                   ratio, fractions, rough_numbers, final_numbers, sample, draws>>

\* the num_levels ratio_formula runs with: root_scalar is given args=(target_sum,),
\* so ratio_formula's num_levels parameter takes its default
FormulaLevels(levels) == NUM_LEVELS

\* lower = 1. + sys.float_info.epsilon
Lower == Scale + EPSILON

\* calc_geometric_ratio from the root_scalar call to its return or raise
RootScalar ==
    /\ pc = "root_scalar"
    /\ formula_levels' = FormulaLevels(num_levels)
    /\ LET L == FormulaLevels(num_levels)
           a == Lower
           b == upper * Scale
       IN  \/ /\ ~BracketValid(target_sum, L, a, b)
              /\ Raise("BracketSigns")
              /\ UNCHANGED ratio
           \/ /\ BracketValid(target_sum, L, a, b)
              /\ \E converged \in BOOLEAN :
                    IF converged
                    THEN /\ ratio' = RootOf(target_sum, L, a, b)
                         /\ pc' = "per_level"
                         /\ UNCHANGED error
                    ELSE /\ Raise("NoConvergence")
                         /\ UNCHANGED ratio
    /\ UNCHANGED <<population, target_sum, num_levels, upper, evaluated,
                   fractions, rough_numbers, final_numbers, sample, draws>>

\* per_level = [(ratio ** i) / highest_level_ratio for i in range(num_levels)]
RawPerLevel(r, target, levels) ==
    [k \in 1 .. levels |-> FxPow(r, k - 1) \div target]

\* per_level.reverse()
Reverse(s) == [k \in 1 .. Len(s) |-> s[Len(s) + 1 - k]]

\* changed: the list is returned without the reversal
PerLevelUnreversed(r, target, levels) == RawPerLevel(r, target, levels)

\* what generate_per_level_fractions returns for the solved ratio
PerLevel(r, target, levels) == Reverse(RawPerLevel(r, target, levels))

\* rough_numbers = {(k + 1): (v * population) for k, v in enumerate(fractions)}
RoughNumbers(fr, pop) == [k \in 1 .. Len(fr) |-> fr[k] * pop]

\* generate_per_level_fractions after the solve, and demographic's scaling
GenerateFractions ==
    /\ pc = "per_level"
    /\ fractions' = PerLevel(ratio, target_sum, num_levels)
    /\ rough_numbers' = RoughNumbers(fractions', population)
    /\ pc' = "rounding"
    /\ UNCHANGED <<population, target_sum, num_levels, upper, evaluated, formula_levels,
                   ratio, final_numbers, sample, draws, error>>

\* num, extra_prob = divmod(rough_num, 1)
WholePart(rough) == rough \div Scale

ExtraProb(rough) == rough % Scale

\* changed: a sample equal to the remainder rounds up too
RoundedCountInclusive(rough, s) ==
    IF s <= ExtraProb(rough) THEN WholePart(rough) + 1 ELSE WholePart(rough)

\* changed: rounds to the nearest whole number, whatever the sample
RoundedCountNearest(rough, s) ==
    IF 2 * ExtraProb(rough) >= Scale THEN WholePart(rough) + 1 ELSE WholePart(rough)

\* if random.random() < extra_prob: num += 1; then int(num)
RoundedCount(rough, s) ==
    IF s < ExtraProb(rough) THEN WholePart(rough) + 1 ELSE WholePart(rough)

\* the level the loop over rough_numbers.items() handles next
NextLevel == Len(final_numbers) + 1

\* one iteration of demographic's loop: one level, one random.random() call
RoundLevel ==
    /\ pc = "rounding"
    /\ NextLevel <= num_levels
    /\ \E s \in Samples :
          /\ sample' = s
          /\ final_numbers' = Append(final_numbers, RoundedCount(rough_numbers[NextLevel], s))
    /\ draws' = draws + 1
    /\ UNCHANGED <<population, target_sum, num_levels, pc, upper, evaluated, formula_levels,
                   ratio, fractions, rough_numbers, error>>

\* sum(final_numbers.values())
RECURSIVE SumValues(_)
SumValues(s) == IF Len(s) = 0 THEN 0 ELSE s[1] + SumValues(Tail(s))

\* changed: the residual is taken from the whole parts of the rough numbers
LevelZeroOfWholeParts(pop, counts) ==
    pop - SumValues([k \in 1 .. Len(counts) |-> WholePart(rough_numbers[k])])

\* population - sum(final_numbers.values())
LevelZero(pop, counts) == pop - SumValues(counts)

\* final_numbers[0] = ...; return final_numbers
Return ==
    /\ pc = "rounding"
    /\ NextLevel > num_levels
    /\ final_numbers' = [k \in 0 .. num_levels |->
                           IF k = 0 THEN LevelZero(population, final_numbers)
                           ELSE final_numbers[k]]
    /\ pc' = "returned"
    /\ UNCHANGED <<population, target_sum, num_levels, upper, evaluated, formula_levels,
                   ratio, fractions, rough_numbers, sample, draws, error>>

Next ==
    \/ EnterGetRoughUpper
    \/ SearchStep
    \/ RootScalar
    \/ GenerateFractions
    \/ RoundLevel
    \/ Return

Spec == Init /\ [][Next]_vars

TypeOK ==
    /\ pc \in {"calc_geometric_ratio", "get_rough_upper", "root_scalar", "per_level",
               "rounding", "returned", "raised"}
    /\ error \in Errors \cup {"none"}
    /\ (pc = "raised") = (error # "none")

\* ------------------------------------------------------------ claim helpers

\* the call has left the ratio solver with a ratio
Solved == pc \in {"per_level", "rounding", "returned"}

\* _get_rough_upper has returned its bound
UpperFound == Solved \/ pc = "root_scalar" \/ error \in {"BracketSigns", "NoConvergence"}

\* sum of f[0] .. f[k]
RECURSIVE SumTo(_, _)
SumTo(f, k) == IF k < 0 THEN 0 ELSE f[k] + SumTo(f, k - 1)

\* 1 + r + ... + r^(n-1) for a fixed-point r
RECURSIVE SeriesSum(_, _)
SeriesSum(r, n) == IF n <= 0 THEN 0 ELSE FxPow(r, n - 1) + SeriesSum(r, n - 1)

\* --------------------------------------------------------------------- C1

\* C1: whenever demographic returns a mapping, the counts of levels
\* 0..num_levels add up to population exactly, whatever the samples were.
C1_SumIsPopulation ==
    pc = "returned" => SumTo(final_numbers, num_levels) = population

\* a returned mapping in which some level was rounded up and another was not
C1_Witness ==
    /\ pc = "returned"
    /\ population > 0
    /\ \E k \in 1 .. num_levels : final_numbers[k] = rough_numbers[k] \div Scale + 1
    /\ \E k \in 1 .. num_levels :
          /\ rough_numbers[k] % Scale > 0
          /\ final_numbers[k] = rough_numbers[k] \div Scale

\* --------------------------------------------------------------------- C2

\* C2: for a target sum above num_levels > 1 the solver, unless it reports
\* BoundsNotFound or NoConvergence, returns a ratio r > 1 whose num_levels-term
\* geometric sum is the target sum to within one part in a hundred.
C2_RatioSumsToTarget ==
    ( /\ num_levels > 1
      /\ target_sum > num_levels
      /\ Solved \/ pc = "raised"
      /\ error \notin {"BoundsNotFound", "NoConvergence"} )
    => /\ Solved
       /\ ratio > Scale
       /\ Abs(SeriesSum(ratio, num_levels) - target_sum * Scale) * 100 <= target_sum * Scale

\* --------------------------------------------------------------------- C3

\* C3: every count of a returned mapping, level 0's included, is a
\* non-negative integer (looked at where the ratio was solved for the
\* num_levels of the call, so that the fractions add up to 1).
C3_CountsNonNegative ==
    (pc = "returned" /\ formula_levels = num_levels) =>
        \A k \in 0 .. num_levels : final_numbers[k] \in Nat

\* --------------------------------------------------------------------- C4

\* C4: a call with num_levels <= 1 ends with InvalidConfiguration, whatever
\* the target sum, before the upper-bound search evaluates anything: it never
\* reaches the search, a ratio or another error.
C4_InvalidLevelsRejected ==
    (num_levels <= 1 /\ pc # "calc_geometric_ratio")
    => /\ pc = "raised"
       /\ error = "InvalidConfiguration"
       /\ evaluated = 0
       /\ upper = 0

\* num_levels = 1 rejected for a target sum the search could never exceed
C4_Witness ==
    /\ num_levels = 1
    /\ target_sum = MAX_ITER + 2
    /\ pc = "raised"
    /\ error = "InvalidConfiguration"

\* --------------------------------------------------------------------- C5

\* C5 as stated: the fractions returned increase toward the end (each is <=
\* the next), so that the last one, 1/target_sum, is the largest.
C5_FractionsIncreasing ==
    fractions # <<>> =>
        /\ \A k \in 1 .. Len(fractions) - 1 : fractions[k] <= fractions[k + 1]
        /\ \A k \in 1 .. Len(fractions) : fractions[k] <= fractions[Len(fractions)]

\* C5 as amended: the fractions returned decrease toward the end (each is >=
\* the next), and the last one, 1/target_sum, is the smallest.
C5_FractionsDecreasing ==
    fractions # <<>> =>
        /\ Len(fractions) = num_levels
        /\ \A k \in 1 .. Len(fractions) - 1 : fractions[k] >= fractions[k + 1]
        /\ fractions[Len(fractions)] = Scale \div target_sum
        /\ \A k \in 1 .. Len(fractions) : fractions[k] >= fractions[Len(fractions)]

\* fractions were returned and the first is strictly above the last
C5_Witness ==
    /\ fractions # <<>>
    /\ fractions[1] > fractions[Len(fractions)]
    /\ fractions[1] > fractions[2]

\* --------------------------------------------------------------------- C6

\* C6: with population = 0 every count of the returned mapping (levels
\* 0..num_levels) is 0, whatever the samples were.
C6_ZeroPopulation ==
    (population = 0 /\ pc = "returned") =>
        \A k \in 0 .. num_levels : final_numbers[k] = 0

\* population 0 returned after the last draw gave the smallest sample, for
\* fractions that are not all zero
C6_Witness ==
    /\ population = 0
    /\ pc = "returned"
    /\ sample = 0
    /\ fractions[1] > 0

\* --------------------------------------------------------------------- C7

\* C7: for every num_levels > 1, a ratio the solver returns is a root of the
\* polynomial whose exponent is the num_levels calc_geometric_ratio was given.
C7_ExponentIsNumLevels ==
    Solved => formula_levels = num_levels

\* --------------------------------------------------------------------- C8

C9_Outcomes ==
    target_sum > num_levels =>
    /\ pc = "raised" =>
          /\ error \in {"InvalidConfiguration", "BoundsNotFound", "NoConvergence"}
          /\ final_numbers = <<>>
          /\ draws = 0
    /\ pc = "returned" =>
          /\ error = "none"
          /\ DOMAIN final_numbers = 0 .. num_levels

\* -------------------------------------------------------------------- C10

\* C10: each level k in 1..num_levels has rough = fractions[k] * population
\* and a count of floor(rough) or floor(rough) + 1; one sample is drawn per
\* level, the count is floor(rough) + 1 exactly when that level's sample is
\* below the fractional remainder of rough, and a whole rough number is never
\* rounded up.
C10_Rounding ==
    /\ pc = "rounding" =>
          /\ draws = Len(final_numbers)
          /\ Len(final_numbers) > 0 =>
                LET k    == Len(final_numbers)
                    base == rough_numbers[k] \div Scale
                    frac == rough_numbers[k] - base * Scale
                IN  final_numbers[k] = IF sample < frac THEN base + 1 ELSE base
    /\ pc = "returned" => draws = num_levels
    /\ pc \in {"rounding", "returned"} =>
          \A k \in (DOMAIN final_numbers) \ {0} :
             LET rough == fractions[k] * population
                 base  == rough \div Scale
             IN  /\ rough_numbers[k] = rough
                 /\ final_numbers[k] \in {base, base + 1}
                 /\ (base * Scale = rough => final_numbers[k] = base)

\* a returned mapping with a level rounded up from a whole part of at least
\* 1, a level with a remainder left as it was, and a level with no remainder
C10_Witness ==
    /\ pc = "returned"
    /\ \E k \in 1 .. num_levels :
          /\ rough_numbers[k] >= Scale
          /\ final_numbers[k] = rough_numbers[k] \div Scale + 1
    /\ \E k \in 1 .. num_levels :
          /\ rough_numbers[k] % Scale > 0
          /\ final_numbers[k] = rough_numbers[k] \div Scale
    /\ \E k \in 1 .. num_levels : rough_numbers[k] % Scale = 0

====
